---- MODULE Spec2Model ----
(***************************************************************************)
(* A model of github.com/juju/schema: the Checker contract, the leaf       *)
(* combinators Any, Const, Empty and OneOf, the structured-map validator   *)
(* Schema (FieldMap / StrictFieldMap) and the dispatcher FieldMapSet.      *)
(*                                                                         *)
(* Coerce is a pure function of (checker, value, path) and of the order in *)
(* which Go's range statement visits the entries of the maps involved.     *)
(* The model computes it as the code does, loop by loop, and records every *)
(* Checker.Coerce invocation in a history sequence (calls).                *)
(***************************************************************************)
EXTENDS Integers, Sequences, FiniteSets, TLC

VARIABLES checker, v, path, order, result, result2, pc

vars == <<checker, v, path, order, result, result2, pc>>

(***************************************************************************)
(* Bounds of the model.                                                    *)
(***************************************************************************)
\* Integer scalars are 1..MaxInt.
MaxInt == 2
\* OneOf option lists and FieldMapSet variant lists hold at most MaxOptions
\* entries.
MaxOptions == 2

(***************************************************************************)
(* Values: Go's interface{} with its dynamic type.  reflect.DeepEqual is   *)
(* equality of these records (the dynamic type is part of the record).     *)
(***************************************************************************)
Nil == [t |-> "nil"]
IntV(n) == [t |-> "int", n |-> n]
StrV(s) == [t |-> "string", s |-> s]
\* A Go map: kt is the kind of its key type ("string", "interface", or
\* "int" for a key type that is neither), m its entries, keyed by values.
MapV(kt, m) == [t |-> "map", kt |-> kt, m |-> m]
NoEntries == [k \in {} |-> Nil]

\* var Omit omit; type omit struct{}
Omit == [t |-> "omit"]

(***************************************************************************)
(* Results of Coerce: (newv, err), a panic, and the history of the         *)
(* Checker.Coerce invocations made on the way.                             *)
(***************************************************************************)
NoErr == [kind |-> "nil"]
Ok(newv, calls) ==
    [ok |-> TRUE, panic |-> FALSE, val |-> newv, err |-> NoErr, calls |-> calls]
Fail(err, calls) ==
    [ok |-> FALSE, panic |-> FALSE, val |-> Nil, err |-> err, calls |-> calls]
Panic(msg, calls) ==
    [ok |-> FALSE, panic |-> TRUE, val |-> Nil, err |-> [kind |-> "panic", msg |-> msg],
     calls |-> calls]
NoResult == [ok |-> FALSE, panic |-> FALSE, val |-> Nil, err |-> NoErr, calls |-> <<>>]

\* error_{want, got, path}
error_(want, got, p) == [kind |-> "error_", want |-> want, got |-> got, path |-> p]

\* fmt.Sprintf("%#v", x) for the values the model gives to Const.
RECURSIVE GoSyntax(_)
GoSyntax(x) ==
    CASE x.t = "nil" -> "<nil>"
      [] x.t = "int" -> ToString(x.n)
      [] x.t = "string" -> "\"" \o x.s \o "\""
      [] x.t = "omit" -> "schema.omit{}"
      [] OTHER -> IF x.kt = "string" THEN "map[string]interface {}{...}"
                  ELSE IF x.kt = "interface" THEN "map[interface {}]interface {}{...}"
                  ELSE "map[int]interface {}{...}"

(***************************************************************************)
(* Checkers.                                                               *)
(***************************************************************************)
AnyC == [kind |-> "any"]
Const(value) == [kind |-> "const", value |-> value]
Empty(valueLabel) ==
    [kind |-> "empty", valueLabel |-> IF valueLabel = "" THEN "value" ELSE valueLabel]
OneOf(options) == [kind |-> "oneOf", options |-> options]
Dependency(dependsOn, value) == [DependsOn |-> dependsOn, Value |-> value]
Schema(checkers, defaults, dependencies, strict) ==
    [kind |-> "schema", Checkers |-> checkers, Defaults |-> defaults,
     Dependencies |-> dependencies, Strict |-> strict]
NoMap == [n \in {} |-> Nil]
FieldMap(checkers, defaults) == Schema(checkers, defaults, NoMap, FALSE)
StrictFieldMap(checkers, defaults) == Schema(checkers, defaults, NoMap, TRUE)

\* The order in which range visits a map's entries: the entries of dom in
\* the order in which they stand in the ranking.
Visit(ranking, dom) == SelectSeq(ranking, LAMBDA x : x \in dom)

RECURSIVE Coerce(_, _, _, _)

anyC_Coerce(c, x, p, ord) == Ok(x, <<>>)

constC_Coerce(c, x, p, ord) ==
    IF x = c.value THEN Ok(x, <<>>)
    ELSE Fail(error_(GoSyntax(c.value), x, p), <<>>)

emptyC_Coerce(c, x, p, ord) ==
    IF x = Nil THEN Ok(x, <<>>)
    ELSE Fail(error_("empty " \o c.valueLabel, x, p), <<>>)

\* A defect: when every option fails, the last option's error is returned.
RECURSIVE oneOfLoop_LastError(_, _, _, _, _, _)
oneOfLoop_LastError(c, x, p, ord, i, calls) ==
    IF i > Len(c.options) THEN Fail(error_("", x, p), calls)
    ELSE LET r == Coerce(c.options[i], x, p, ord)
         IN  IF r.panic THEN Panic(r.err.msg, calls \o r.calls)
             ELSE IF r.ok THEN Ok(r.val, calls \o r.calls)
             ELSE IF i = Len(c.options) THEN Fail(r.err, calls \o r.calls)
             ELSE oneOfLoop_LastError(c, x, p, ord, i + 1, calls \o r.calls)

\* The loop of oneOfC.Coerce from option i on.
RECURSIVE oneOfLoop(_, _, _, _, _, _)
oneOfLoop(c, x, p, ord, i, calls) ==
    IF i > Len(c.options) THEN Fail(error_("", x, p), calls)
    ELSE LET r == Coerce(c.options[i], x, p, ord)
         IN  IF r.panic THEN Panic(r.err.msg, calls \o r.calls)
             ELSE IF r.ok THEN Ok(r.val, calls \o r.calls)
             ELSE oneOfLoop(c, x, p, ord, i + 1, calls \o r.calls)

oneOfC_Coerce(c, x, p, ord) == oneOfLoop(c, x, p, ord, 1, <<>>)

hasStrictStringKeys(rv) ==
    IF rv.kt = "string" THEN TRUE
    ELSE IF rv.kt # "interface" THEN FALSE
    ELSE \A k \in DOMAIN rv.m : k.t = "string"

\* reflect.Value.String of a key of rv: the string for a key of kind String,
\* and "<T Value>" for a key of any other kind; the keys of a map keyed by
\* interface{} have kind Interface.
KeyString(rv, k) == IF rv.kt = "string" THEN k.s ELSE "<interface {} Value>"

\* The strict check: the error of the first key visited that has no checker.
strictCheck(s, rv, p, keys) ==
    LET bad == {i \in 1..Len(keys) : KeyString(rv, keys[i]) \notin DOMAIN s.Checkers}
    IN  IF bad = {} THEN NoErr
        ELSE LET i == CHOOSE j \in bad : \A l \in bad : j <= l
             IN  [kind |-> "unknown key", path |-> p, name |-> KeyString(rv, keys[i]),
                  value |-> rv.m[keys[i]]]

\* vpath := append(path, ".", "?"); vpath[len(vpath)-1] = name
fieldPath(p, name) == p \o <<".", name>>

\* A defect: the Defaults case stands before the case of a value present in
\* the input, so a default overrides the input's value.
fieldSwitch_DefaultFirst(s, rv, name) ==
    LET present == StrV(name) \in DOMAIN rv.m
        hasDefault == name \in DOMAIN s.Defaults
        hasDependency == name \in DOMAIN s.Dependencies
    IN  CASE hasDefault /\ s.Defaults[name] = Omit /\ ~present ->
                [skip |-> TRUE, value |-> Nil]
          [] hasDefault /\ s.Defaults[name] # Omit ->
                [skip |-> FALSE, value |-> s.Defaults[name]]
          [] present -> [skip |-> FALSE, value |-> rv.m[StrV(name)]]
          [] hasDependency -> [skip |-> TRUE, value |-> Nil]
          [] OTHER -> [skip |-> FALSE, value |-> Nil]

\* A defect: a field without value, default and dependency is skipped.
fieldSwitch_SkipMissing(s, rv, name) ==
    LET present == StrV(name) \in DOMAIN rv.m
        hasDefault == name \in DOMAIN s.Defaults
    IN  CASE present -> [skip |-> FALSE, value |-> rv.m[StrV(name)]]
          [] hasDefault -> IF s.Defaults[name] = Omit
                           THEN [skip |-> TRUE, value |-> Nil]
                           ELSE [skip |-> FALSE, value |-> s.Defaults[name]]
          [] OTHER -> [skip |-> TRUE, value |-> Nil]

\* A defect: the Dependencies case stands before the Defaults case, so a
\* dependent field is left to the loop over Defaults.
fieldSwitch_DependencyFirst(s, rv, name) ==
    LET present == StrV(name) \in DOMAIN rv.m
        hasDefault == name \in DOMAIN s.Defaults
        hasDependency == name \in DOMAIN s.Dependencies
    IN  CASE present -> [skip |-> FALSE, value |-> rv.m[StrV(name)]]
          [] hasDependency -> [skip |-> TRUE, value |-> Nil]
          [] hasDefault -> IF s.Defaults[name] = Omit
                           THEN [skip |-> TRUE, value |-> Nil]
                           ELSE [skip |-> FALSE, value |-> s.Defaults[name]]
          [] OTHER -> [skip |-> FALSE, value |-> Nil]

\* The switch of the first loop of Schema.Coerce: whether the field is
\* skipped (continue) and else the value its checker is given.  With no
\* case taken, value is still the nil it was declared as.
fieldSwitch(s, rv, name) ==
    LET present == StrV(name) \in DOMAIN rv.m
        hasDefault == name \in DOMAIN s.Defaults
        hasDependency == name \in DOMAIN s.Dependencies
    IN  CASE present -> [skip |-> FALSE, value |-> rv.m[StrV(name)]]
          [] hasDefault -> IF s.Defaults[name] = Omit
                           THEN [skip |-> TRUE, value |-> Nil]
                           ELSE [skip |-> FALSE, value |-> s.Defaults[name]]
          [] hasDependency -> [skip |-> TRUE, value |-> Nil]
          [] OTHER -> [skip |-> FALSE, value |-> Nil]

\* The first loop of Schema.Coerce over the names still to visit; st holds
\* out and the history so far.
RECURSIVE coerceFields(_, _, _, _, _, _)
coerceFields(s, rv, p, ord, names, st) ==
    IF names = <<>> THEN [ok |-> TRUE, panic |-> FALSE, out |-> st.out, err |-> NoErr,
                           calls |-> st.calls]
    ELSE LET name == Head(names)
             sw == fieldSwitch(s, rv, name)
         IN  IF sw.skip THEN coerceFields(s, rv, p, ord, Tail(names), st)
             ELSE LET r == Coerce(s.Checkers[name], sw.value, fieldPath(p, name), ord)
                  IN  IF ~r.ok
                      THEN [ok |-> FALSE, panic |-> r.panic, out |-> st.out, err |-> r.err,
                            calls |-> st.calls \o r.calls]
                      ELSE coerceFields(s, rv, p, ord, Tail(names),
                               [out |-> (name :> r.val) @@ st.out,
                                calls |-> st.calls \o r.calls])

\* The second loop of Schema.Coerce, over Defaults; x is the whole input.
RECURSIVE backfillDefaults(_, _, _, _, _, _)
backfillDefaults(s, x, p, ord, names, st) ==
    IF names = <<>> THEN [ok |-> TRUE, panic |-> FALSE, out |-> st.out, err |-> NoErr,
                           calls |-> st.calls]
    ELSE LET name == Head(names)
         IN  IF s.Defaults[name] = Omit \/ name \in DOMAIN st.out
             THEN backfillDefaults(s, x, p, ord, Tail(names), st)
             ELSE IF name \notin DOMAIN s.Checkers
             THEN [ok |-> FALSE, panic |-> FALSE, out |-> st.out,
                   err |-> [kind |-> "got default value for unknown field", name |-> name],
                   calls |-> st.calls]
             ELSE LET r == Coerce(s.Checkers[name], x, fieldPath(p, name), ord)
                  IN  IF ~r.ok
                      THEN [ok |-> FALSE, panic |-> r.panic, out |-> st.out, err |-> r.err,
                            calls |-> st.calls \o r.calls]
                      ELSE backfillDefaults(s, x, p, ord, Tail(names),
                               [out |-> (name :> r.val) @@ st.out,
                                calls |-> st.calls \o r.calls])

\* A defect: the case of a missing dependent field is left out.
dependencyError_MissingAllowed(s, out, name) ==
    LET dep == s.Dependencies[name]
        depExists == dep.DependsOn \in DOMAIN out
        actual == IF depExists THEN out[dep.DependsOn] ELSE Nil
        fieldExists == name \in DOMAIN out
        equal == actual = dep.Value
    IN  CASE fieldExists /\ depExists /\ ~equal ->
                [kind |-> "should not be specified", name |-> name,
                 dependsOn |-> dep.DependsOn, actual |-> actual, value |-> dep.Value]
          [] fieldExists /\ ~depExists ->
                [kind |-> "requires value", name |-> name,
                 dependsOn |-> dep.DependsOn, value |-> dep.Value]
          [] OTHER -> NoErr

\* One iteration of the third loop: the error of dependency name, or NoErr.
dependencyError(s, out, name) ==
    LET dep == s.Dependencies[name]
        depExists == dep.DependsOn \in DOMAIN out
        actual == IF depExists THEN out[dep.DependsOn] ELSE Nil
        fieldExists == name \in DOMAIN out
        equal == actual = dep.Value
    IN  CASE ~fieldExists /\ ~depExists -> NoErr
          [] fieldExists /\ depExists /\ equal -> NoErr
          [] fieldExists /\ depExists /\ ~equal ->
                [kind |-> "should not be specified", name |-> name,
                 dependsOn |-> dep.DependsOn, actual |-> actual, value |-> dep.Value]
          [] fieldExists /\ ~depExists ->
                [kind |-> "requires value", name |-> name,
                 dependsOn |-> dep.DependsOn, value |-> dep.Value]
          [] ~fieldExists /\ depExists /\ equal ->
                [kind |-> "required field is missing", name |-> name,
                 dependsOn |-> dep.DependsOn, actual |-> actual]
          [] OTHER -> NoErr

\* A defect: the loop returns after the first dependency visited.
checkDependencies_FirstOnly(s, out, names) ==
    IF names = <<>> THEN NoErr ELSE dependencyError(s, out, names[1])

\* The third loop of Schema.Coerce: the error of the first dependency
\* visited that is violated.
checkDependencies(s, out, names) ==
    LET bad == {i \in 1..Len(names) : dependencyError(s, out, names[i]) # NoErr}
    IN  IF bad = {} THEN NoErr
        ELSE dependencyError(s, out, names[CHOOSE j \in bad : \A l \in bad : j <= l])

\* A defect: out is made a map keyed by interface{}.
OutValue_InterfaceKeys(out) ==
    MapV("interface", [k \in {StrV(n) : n \in DOMAIN out} |-> out[k.s]])

\* out, a map[string]interface{}, as a value.
OutValue(out) == MapV("string", [k \in {StrV(n) : n \in DOMAIN out} |-> out[k.s]])

\* Schema.Coerce from vpath := append(path, ".", "?") up to the dependency
\* loop: the per-field loop, then the loop over Defaults.
outBeforeDependencies(s, x, p, ord) ==
    LET f == coerceFields(s, x, p, ord, Visit(ord.fields, DOMAIN s.Checkers),
                          [out |-> NoMap, calls |-> <<>>])
    IN  IF ~f.ok THEN f
        ELSE backfillDefaults(s, x, p, ord, Visit(ord.defaults, DOMAIN s.Defaults),
                              [out |-> f.out, calls |-> f.calls])

Schema_Coerce(s, x, p, ord) ==
    IF x.t # "map" THEN Fail(error_("map", x, p), <<>>)
    ELSE IF ~hasStrictStringKeys(x) THEN Fail(error_("map[string]", x, p), <<>>)
    ELSE LET strictErr == IF s.Strict
                          THEN strictCheck(s, x, p, Visit(ord.keys, DOMAIN x.m))
                          ELSE NoErr
         IN  IF strictErr # NoErr THEN Fail(strictErr, <<>>)
             ELSE
             LET d == outBeforeDependencies(s, x, p, ord)
             IN  IF d.panic THEN Panic(d.err.msg, d.calls)
                 ELSE IF ~d.ok THEN Fail(d.err, d.calls)
                 ELSE
                 LET depErr == checkDependencies(s, d.out,
                                   Visit(ord.deps, DOMAIN s.Dependencies))
                 IN  IF depErr # NoErr THEN Fail(depErr, d.calls)
                     ELSE Ok(OutValue(d.out), d.calls)

\* FieldMapSet panics unless every map is a Schema with a checker for the
\* selector.
FieldMapSetPanics(selector, maps) ==
    \E i \in 1..Len(maps) :
        maps[i].kind # "schema" \/ selector \notin DOMAIN maps[i].Checkers
FieldMapSet(selector, maps) == [kind |-> "mapSet", selector |-> selector, fmaps |-> maps]

\* A defect: a variant that rejects the input is passed over like one whose
\* selector checker rejects the selector.
RECURSIVE mapSetLoop_TryNext(_, _, _, _, _, _, _)
mapSetLoop_TryNext(c, x, p, ord, selector, i, calls) ==
    IF i > Len(c.fmaps)
    THEN Fail(error_("supported selector", selector, p \o <<".", c.selector>>), calls)
    ELSE LET probe == Coerce(c.fmaps[i].Checkers[c.selector], selector, p, ord)
         IN  IF probe.panic THEN Panic(probe.err.msg, calls \o probe.calls)
             ELSE IF ~probe.ok
             THEN mapSetLoop_TryNext(c, x, p, ord, selector, i + 1, calls \o probe.calls)
             ELSE LET r == Coerce(c.fmaps[i], x, p, ord)
                  IN  IF r.ok \/ r.panic
                      THEN [r EXCEPT !.calls = calls \o probe.calls \o r.calls]
                      ELSE mapSetLoop_TryNext(c, x, p, ord, selector, i + 1,
                                              calls \o probe.calls \o r.calls)

\* The loop of mapSetC.Coerce from variant i on.
RECURSIVE mapSetLoop(_, _, _, _, _, _, _)
mapSetLoop(c, x, p, ord, selector, i, calls) ==
    IF i > Len(c.fmaps)
    THEN Fail(error_("supported selector", selector, p \o <<".", c.selector>>), calls)
    ELSE LET probe == Coerce(c.fmaps[i].Checkers[c.selector], selector, p, ord)
         IN  IF probe.panic THEN Panic(probe.err.msg, calls \o probe.calls)
             ELSE IF ~probe.ok
             THEN mapSetLoop(c, x, p, ord, selector, i + 1, calls \o probe.calls)
             ELSE LET r == Coerce(c.fmaps[i], x, p, ord)
                  IN  [r EXCEPT !.calls = calls \o probe.calls \o r.calls]

mapSetC_Coerce(c, x, p, ord) ==
    IF x.t # "map" THEN Fail(error_("map", x, p), <<>>)
    ELSE IF x.kt \notin {"string", "interface"}
    THEN Panic("reflect.Value.MapIndex: value of type string is not assignable", <<>>)
    ELSE IF StrV(c.selector) \in DOMAIN x.m
    THEN mapSetLoop(c, x, p, ord, x.m[StrV(c.selector)], 1, <<>>)
    ELSE Fail(error_("supported selector", Nil, p \o <<".", c.selector>>), <<>>)

\* Checker.Coerce: dynamic dispatch on the checker's type; every
\* invocation is put on the history.
Coerce(c, x, p, ord) ==
    LET r == CASE c.kind = "any" -> anyC_Coerce(c, x, p, ord)
               [] c.kind = "const" -> constC_Coerce(c, x, p, ord)
               [] c.kind = "empty" -> emptyC_Coerce(c, x, p, ord)
               [] c.kind = "oneOf" -> oneOfC_Coerce(c, x, p, ord)
               [] c.kind = "schema" -> Schema_Coerce(c, x, p, ord)
               [] c.kind = "mapSet" -> mapSetC_Coerce(c, x, p, ord)
    IN  [r EXCEPT !.calls = <<[c |-> c, v |-> x, path |-> p]>> \o r.calls]

(***************************************************************************)
(* The orders range may take.  An order ranks the keys of the input maps   *)
(* and the names of Checkers, Defaults and Dependencies; each loop visits  *)
(* its map's entries as the ranking of its kind lists them.                *)
(***************************************************************************)
RECURSIVE Perms(_)
Perms(S) ==
    IF S = {} THEN {<<>>}
    ELSE UNION {{<<x>> \o q : q \in Perms(S \ {x})} : x \in S}

RECURSIVE KeysOf(_)
KeysOf(x) ==
    IF x.t # "map" THEN {}
    ELSE DOMAIN x.m \cup UNION {KeysOf(x.m[k]) : k \in DOMAIN x.m}

\* The checkers of the tree c: c itself and the checkers below it.
RECURSIVE SubCheckers(_)
SubCheckers(c) ==
    {c} \cup
    CASE c.kind = "oneOf" ->
            UNION {SubCheckers(c.options[i]) : i \in 1..Len(c.options)}
      [] c.kind = "mapSet" ->
            UNION {SubCheckers(c.fmaps[i]) : i \in 1..Len(c.fmaps)}
      [] c.kind = "schema" ->
            UNION {SubCheckers(c.Checkers[n]) : n \in DOMAIN c.Checkers}
      [] OTHER -> {}

SchemasOf(c) == {s \in SubCheckers(c) : s.kind = "schema"}

Orders(c, x) ==
    [keys : Perms(KeysOf(x)),
     fields : Perms(UNION {DOMAIN s.Checkers : s \in SchemasOf(c)}),
     defaults : Perms(UNION {DOMAIN s.Defaults : s \in SchemasOf(c)}),
     deps : Perms(UNION {DOMAIN s.Dependencies : s \in SchemasOf(c)})]

(***************************************************************************)
(* The schemas and inputs of the specification Spec: one Schema over the   *)
(* fields a and b with leaf checkers, and flat inputs.                     *)
(***************************************************************************)
FieldNames == {"a", "b"}
Scalars == {Nil} \cup {IntV(n) : n \in 1..MaxInt}
PartialFns(D, R) == UNION {[S -> R] : S \in SUBSET D}
Other(n) == IF n = "a" THEN "b" ELSE "a"

FlatSchemas ==
    {Schema(cs, ds, [n \in S |-> Dependency(Other(n), IntV(1))], st) :
        cs \in PartialFns(FieldNames, {AnyC, Const(IntV(1))}),
        ds \in PartialFns(FieldNames, {Omit} \cup Scalars),
        S \in SUBSET FieldNames,
        st \in BOOLEAN}

FlatInputs ==
    {MapV(kt, m) : kt \in {"string", "interface"},
                   m \in PartialFns({StrV(n) : n \in FieldNames}, Scalars)}
    \cup {MapV("interface", (IntV(1) :> IntV(1))),
          MapV("interface", (IntV(1) :> IntV(1)) @@ (StrV("a") :> IntV(1))),
          MapV("int", (IntV(1) :> IntV(1))),
          Nil, IntV(1)}

(***************************************************************************)
(* The checker trees and inputs of the second family of initial states:    *)
(* OneOf and FieldMapSet over leaves and schemas of the one field a, and   *)
(* schemas whose field checker is itself a Schema or a OneOf.              *)
(***************************************************************************)
Leaves == {AnyC, Empty("")} \cup {Const(IntV(n)) : n \in 1..MaxInt}

SmallSchemas ==
    {Schema(cs, ds, NoMap, st) :
        cs \in PartialFns({"a"}, {AnyC}),
        ds \in PartialFns({"a"}, {IntV(1)}),
        st \in BOOLEAN}

NestedCheckers ==
    SmallSchemas \cup {OneOf(<<Const(IntV(1)), Empty("")>>)}

TreeSchemas ==
    {Schema(cs, ds, NoMap, st) :
        cs \in PartialFns({"a"}, Leaves \cup NestedCheckers),
        ds \in PartialFns({"a"}, {Omit, IntV(1), MapV("string", NoEntries)}),
        st \in BOOLEAN}

\* Schemas whose field a is checked by a lax schema without checkers.
BelowSchemas ==
    {FieldMap(("a" :> s), NoMap) :
        s \in {t \in SmallSchemas : DOMAIN t.Checkers = {} /\ ~t.Strict}}

Options == Leaves \cup SmallSchemas \cup BelowSchemas

SeqsUpTo(S, n) == UNION {[1..k -> S] : k \in 0..n}

OneOfs == {OneOf(options) : options \in SeqsUpTo(Options, MaxOptions)}

Variants ==
    {Schema(("a" :> sel), ds, NoMap, st) :
        sel \in {AnyC} \cup {Const(IntV(n)) : n \in 1..MaxInt},
        ds \in PartialFns({"a"}, {IntV(1)}),
        st \in BOOLEAN}

\* FieldMapSet is only ever built from maps it does not panic on.
MapSets ==
    {FieldMapSet("a", maps) :
        maps \in {ms \in SeqsUpTo(Variants \cup {FieldMap(NoMap, NoMap), AnyC}, MaxOptions) :
                     ~FieldMapSetPanics("a", ms)}}

TreeCheckers == Leaves \cup TreeSchemas \cup OneOfs \cup MapSets

TreeInputs ==
    {MapV(kt, m) :
        kt \in {"string", "interface"},
        m \in {f \in PartialFns({StrV("a"), StrV("c")},
                                Scalars \cup {MapV("string", NoEntries),
                                              MapV("string", (StrV("a") :> IntV(1))),
                                              MapV("string", (StrV("c") :> IntV(1)))}) :
                 StrV("c") \in DOMAIN f => f[StrV("c")] = IntV(1)}}
    \cup {MapV("int", (IntV(1) :> IntV(1))), Nil, IntV(1)}

aPath == <<"<pa", "th>">>
NoOrder == [keys |-> <<>>, fields |-> <<>>, defaults |-> <<>>, deps |-> <<>>]

Init ==
    /\ \/ checker \in FlatSchemas /\ v \in FlatInputs
       \/ checker \in TreeCheckers /\ v \in TreeInputs
    /\ path = aPath
    /\ order = NoOrder
    /\ result = NoResult
    /\ result2 = NoResult
    /\ pc = "start"

\* A caller coerces v through checker at path; range visits the maps in
\* some order.
CoerceStep ==
    /\ pc = "start"
    /\ \E ord \in Orders(checker, v) :
           /\ order' = ord
           /\ result' = Coerce(checker, v, path, ord)
    /\ pc' = "coerced"
    /\ UNCHANGED <<checker, v, path, result2>>

\* The caller coerces the output again through the same checker.
RecoerceStep ==
    /\ pc = "coerced"
    /\ result.ok
    /\ \E ord \in Orders(checker, result.val) :
           result2' = Coerce(checker, result.val, path, ord)
    /\ pc' = "recoerced"
    /\ UNCHANGED <<checker, v, path, order, result>>

Next == CoerceStep \/ RecoerceStep

Spec == Init /\ [][Next]_vars

(***************************************************************************)
(* Properties.                                                             *)
(***************************************************************************)
\* The first coercion has returned: result holds what it returned under order.
Done == pc = "coerced"

\* The top-level checker is a Schema and the input a map.
SchemaRun == Done /\ checker.kind = "schema" /\ v.t = "map"

\* The Checker.Coerce invocations made at path p, in order.
CallsAt(p) == SelectSeq(result.calls, LAMBDA e : e.path = p)

\* The output of a successful run holds an entry for name.
InOutput(name) == StrV(name) \in DOMAIN result.val.m
Output(name) == result.val.m[StrV(name)]

Absent(name) == StrV(name) \notin DOMAIN v.m
HasValueDefault(name) ==
    name \in DOMAIN checker.Defaults /\ checker.Defaults[name] # Omit
HasOmitDefault(name) ==
    name \in DOMAIN checker.Defaults /\ checker.Defaults[name] = Omit

\* What the checker of field name makes of the value x.
FieldResult(name, x) ==
    Coerce(checker.Checkers[name], x, fieldPath(path, name), order)

\* The checker of field name is invoked first at the field's path, on x.
InvokedOn(name, x) ==
    LET at == CallsAt(fieldPath(path, name))
    IN  at # <<>> /\ at[1].c = checker.Checkers[name] /\ at[1].v = x
NotInvoked(name) == CallsAt(fieldPath(path, name)) = <<>>

\* The field is handled by applying its checker to x: nothing else is ever
\* passed to the checker, a success stores the checker's result, and a
\* failure of the checker fails the run.
CoercedFrom(name, x) ==
    /\ NotInvoked(name) \/ InvokedOn(name, x)
    /\ result.ok => /\ InvokedOn(name, x)
                    /\ FieldResult(name, x).ok
                    /\ InOutput(name)
                    /\ Output(name) = FieldResult(name, x).val
    /\ ~FieldResult(name, x).ok => ~result.ok

DependencyErrors ==
    {"should not be specified", "requires value", "required field is missing"}

\* The dependency of name holds in out as an if-and-only-if.
DependencyHolds(s, out, name) ==
    LET dep == s.Dependencies[name]
    IN  name \in DOMAIN out <=>
            (dep.DependsOn \in DOMAIN out /\ out[dep.DependsOn] = dep.Value)

\* C1: when the shape check, the strict check and the per-field steps that
\* build the output pass, Schema.Coerce succeeds exactly when every
\* dependency holds in the output as an if-and-only-if (the dependent field
\* is in the output iff the field depended on is there with the required
\* value); otherwise it returns a dependency error and no output map.
C1_DependenciesIff ==
    (SchemaRun /\ hasStrictStringKeys(v) /\ result.err.kind # "unknown key") =>
        LET d == outBeforeDependencies(checker, v, path, order)
        IN  d.ok =>
              /\ result.ok <=> \A name \in DOMAIN checker.Dependencies :
                                   DependencyHolds(checker, d.out, name)
              /\ result.ok => result.val = OutValue(d.out)
              /\ ~result.ok => /\ result.val = Nil
                               /\ result.err.kind \in DependencyErrors
                               /\ result.err.name \in DOMAIN checker.Dependencies
                               /\ ~DependencyHolds(checker, d.out, result.err.name)

\* A run the dependency step fails because the field depended on has the
\* required value and the dependent field is missing.
C1_Witness ==
    /\ SchemaRun
    /\ outBeforeDependencies(checker, v, path, order).ok
    /\ ~result.ok
    /\ result.err.kind = "required field is missing"

\* C2: a field with a checker that is present in the input has its checker
\* applied to the input's value (the default is ignored); absent with an
\* Omit default, its checker is not called and the output has no entry for
\* it; absent with another default d, its checker is applied to d, the
\* output holds the checker's result, and a failure on d fails Coerce.
C2_DefaultsThroughChecker ==
    SchemaRun =>
        \A name \in DOMAIN checker.Checkers :
            /\ ~Absent(name) => CoercedFrom(name, v.m[StrV(name)])
            /\ (Absent(name) /\ HasOmitDefault(name)) =>
                   /\ NotInvoked(name)
                   /\ result.ok => ~InOutput(name)
            /\ (Absent(name) /\ HasValueDefault(name)) =>
                   CoercedFrom(name, checker.Defaults[name])

\* A successful run in which an absent field's default went through the
\* field's checker and came out changed.
C2_Witness ==
    /\ SchemaRun
    /\ result.ok
    /\ \E name \in DOMAIN checker.Checkers :
           /\ Absent(name) /\ HasValueDefault(name)
           /\ InvokedOn(name, checker.Defaults[name])
           /\ Output(name) # checker.Defaults[name]

\* C3: with Strict set and an input that passes the shape check (a map
\* keyed by string, or keyed by interface{} with only string keys), Coerce
\* fails at the strict check if and only if some key of the input has no
\* checker, and the error names such a key.
C3_StrictIffUnknownKey ==
    (SchemaRun /\ checker.Strict /\ hasStrictStringKeys(v)) =>
        LET unknown == {k \in DOMAIN v.m : k.s \notin DOMAIN checker.Checkers}
        IN  /\ result.err.kind = "unknown key" <=> unknown # {}
            /\ result.err.kind = "unknown key" => StrV(result.err.name) \in unknown

\* The field has a checker, is absent from the input and has neither a
\* default nor a dependency.
BareAbsent(name) ==
    /\ name \in DOMAIN checker.Checkers
    /\ Absent(name)
    /\ name \notin DOMAIN checker.Defaults
    /\ name \notin DOMAIN checker.Dependencies

\* C4 as stated: such a field's checker is not invoked, the output has no
\* entry for it, and Coerce never fails at that field.
C4_AbsentFieldOmitted ==
    SchemaRun =>
        \A name \in DOMAIN checker.Checkers :
            BareAbsent(name) =>
                /\ NotInvoked(name)
                /\ result.ok => ~InOutput(name)
                /\ ~(result.err.kind = "error_"
                     /\ result.err.path = fieldPath(path, name))

\* C4 as amended: such a field's checker is applied to nil; the output
\* holds the checker's result for it, and a checker that rejects nil fails
\* Coerce.
C4_AbsentFieldCoercedFromNil ==
    SchemaRun =>
        \A name \in DOMAIN checker.Checkers :
            BareAbsent(name) => CoercedFrom(name, Nil)

\* A run that fails because a field without default or dependency is
\* absent: its checker was given nil and rejected it.
C4_Witness ==
    /\ SchemaRun
    /\ ~result.ok
    /\ \E name \in DOMAIN checker.Checkers :
           /\ BareAbsent(name)
           /\ InvokedOn(name, Nil)
           /\ result.err = FieldResult(name, Nil).err
           /\ result.err.kind = "error_"

TopCall == [c |-> checker, v |-> v, path |-> path]

\* The invocations, after the top-level one, made at the caller's path on
\* the value x.
CallsOn(x) == SelectSeq(Tail(result.calls), LAMBDA e : e.path = path /\ e.v = x)

Least(S) == CHOOSE i \in S : \A j \in S : i <= j

SameOutcome(r1, r2) == r1.ok = r2.ok /\ r1.val = r2.val /\ r1.err = r2.err

\* C5: FieldMapSet's checker takes the first variant whose selector-field
\* checker accepts the raw selector value, coerces the whole input against
\* that variant and returns its result, success or error, trying no later
\* variant; with the selector absent or accepted by no variant it fails
\* with expected "supported selector" at path + "." + selector, whatever
\* defaults the variants declare.
C5_FieldMapSetFirstMatch ==
    (Done /\ checker.kind = "mapSet" /\ v.t = "map" /\ v.kt \in {"string", "interface"}) =>
        LET sel == checker.selector
            present == StrV(sel) \in DOMAIN v.m
            raw == IF present THEN v.m[StrV(sel)] ELSE Nil
            accepting == {i \in 1..Len(checker.fmaps) :
                             Coerce(checker.fmaps[i].Checkers[sel], raw, path, order).ok}
            probes == CallsOn(raw)
            tried == CallsOn(v)
        IN  /\ result.calls[1] = TopCall
            /\ IF present /\ accepting # {}
               THEN LET i0 == Least(accepting)
                    IN  /\ SameOutcome(result, Coerce(checker.fmaps[i0], v, path, order))
                        /\ Len(probes) = i0
                        /\ \A i \in 1..i0 : probes[i].c = checker.fmaps[i].Checkers[sel]
                        /\ tried = <<[c |-> checker.fmaps[i0], v |-> v, path |-> path]>>
               ELSE /\ ~result.ok
                    /\ result.val = Nil
                    /\ result.err = error_("supported selector", raw, path \o <<".", sel>>)
                    /\ tried = <<>>
                    /\ Len(probes) = IF present THEN Len(checker.fmaps) ELSE 0

\* A run in which the first variant's selector checker rejects the selector
\* value, the second accepts it, and the second variant rejects the input.
C5_Witness ==
    /\ Done
    /\ checker.kind = "mapSet"
    /\ Len(checker.fmaps) = 2
    /\ v.t = "map"
    /\ StrV(checker.selector) \in DOMAIN v.m
    /\ Len(CallsOn(v.m[StrV(checker.selector)])) = 2
    /\ CallsOn(v) = <<[c |-> checker.fmaps[2], v |-> v, path |-> path]>>
    /\ ~result.ok
    /\ result.err.kind = "unknown key"

\* C6: OneOf tries its options in order on the same value and path, returns
\* the value of the first option that succeeds and invokes none after it;
\* it fails iff every option fails (an empty list included), with the
\* single error of empty expected description, the value and the path.
C6_OneOfFirstSuccess ==
    (Done /\ checker.kind = "oneOf") =>
        LET n == Len(checker.options)
            opt(i) == Coerce(checker.options[i], v, path, order)
            succeeding == {i \in 1..n : opt(i).ok}
            tried == CallsOn(v)
        IN  /\ result.calls[1] = TopCall
            /\ \A i \in 1..Len(tried) : tried[i].c = checker.options[i]
            /\ result.ok <=> succeeding # {}
            /\ IF succeeding # {}
               THEN /\ result.val = opt(Least(succeeding)).val
                    /\ Len(tried) = Least(succeeding)
               ELSE /\ result.val = Nil
                    /\ result.err = error_("", v, path)
                    /\ Len(tried) = n

\* A run in which the first option fails with an error of its own and the
\* second of two options succeeds, as a schema that changes the value.
C6_Witness ==
    /\ Done
    /\ checker.kind = "oneOf"
    /\ Len(checker.options) = 2
    /\ ~Coerce(checker.options[1], v, path, order).ok
    /\ checker.options[2].kind = "schema"
    /\ result.ok
    /\ result.val # v

\* C7 as stated: whenever Coerce succeeds, coercing its output again
\* through the same checker at the same path succeeds with an equal value.
C7_Idempotent ==
    pc = "recoerced" => result2.ok /\ result2.val = result.val

\* No Schema and no FieldMapSet stands in the tree c.
NoMapChecker(c) == \A s \in SubCheckers(c) : s.kind \notin {"schema", "mapSet"}

\* Every OneOf option and every FieldMapSet selector-field checker of the
\* tree c is free of Schema and FieldMapSet.
PlainAlternatives(c) ==
    \A s \in SubCheckers(c) :
        /\ s.kind = "oneOf" => \A i \in 1..Len(s.options) : NoMapChecker(s.options[i])
        /\ s.kind = "mapSet" =>
               \A i \in 1..Len(s.fmaps) : NoMapChecker(s.fmaps[i].Checkers[s.selector])

\* C7 as amended: coercion is idempotent for the checker trees in which no
\* Schema or FieldMapSet stands below a OneOf option or below a FieldMapSet
\* selector-field checker.
C7_IdempotentPlainAlternatives ==
    (pc = "recoerced" /\ PlainAlternatives(checker)) =>
        result2.ok /\ result2.val = result.val

\* A schema with defaults and dependencies whose output differs from its
\* input and is returned unchanged by the second coercion.
C7_Witness ==
    /\ pc = "recoerced"
    /\ PlainAlternatives(checker)
    /\ checker.kind = "schema"
    /\ \E n \in DOMAIN checker.Defaults : checker.Defaults[n] # Omit
    /\ checker.Dependencies # NoMap
    /\ result.val # v
    /\ result2.ok
    /\ result2.val = result.val

ConfigError == "got default value for unknown field"

\* Some Schema invoked during the run returned the configuration error.
ConfigErrorRaised ==
    \E i \in 1..Len(result.calls) :
        LET e == result.calls[i]
        IN  /\ e.c.kind = "schema"
            /\ Coerce(e.c, e.v, e.path, order).err.kind = ConfigError

\* C8: a configuration error (a non-Omit default for a field without a
\* checker) raised by a Schema during Coerce reaches the caller of the
\* top-level Coerce, also from below a OneOf.
C8_ConfigErrorReachesCaller ==
    (Done /\ ConfigErrorRaised) => (~result.ok /\ result.err.kind = ConfigError)

\* The step of Schema.Coerce an error comes from.
ErrStep(err) ==
    CASE err.kind = "nil" -> "none"
      [] err.kind = "error_" -> IF err.path = path THEN "shape" ELSE "field"
      [] err.kind = "unknown key" -> "strict"
      [] err.kind = ConfigError -> "backfill"
      [] err.kind \in DependencyErrors -> "dependencies"
      [] OTHER -> "panic"

\* Two errors of the same step that blame different entries of the map the
\* step ranges over (the strict check names every key of a map keyed by
\* interface{} alike).
DifferentEntries(e1, e2) ==
    /\ ErrStep(e1) = ErrStep(e2)
    /\ CASE ErrStep(e1) = "field" -> e1.path # e2.path
         [] ErrStep(e1) = "strict" -> e1.name # e2.name \/ v.kt = "interface"
         [] ErrStep(e1) = "backfill" -> e1.name # e2.name
         [] ErrStep(e1) = "dependencies" -> e1.name # e2.name
         [] OTHER -> FALSE

\* The field checkers of the top-level schema are Any, Const or Empty.
LeafFields ==
    \A n \in DOMAIN checker.Checkers :
        checker.Checkers[n].kind \in {"any", "const", "empty"}

\* C9 as stated: every order of visiting the entries of Checkers, Defaults
\* and Dependencies yields the same outcome, the same output on success and
\* the same error on failure.
C9_OrderIndependent ==
    (SchemaRun /\ LeafFields) =>
        \A o \in Orders(checker, v) :
            o.keys = order.keys => SameOutcome(Coerce(checker, v, path, o), result)

\* C9 as amended: every order (of the input's keys too) yields the same verdict, the same output map
\* on success and, on failure, an error of the same step; two orders report
\* different errors only when they blame different failing entries of that
\* step.
C9_OrderIndependentVerdict ==
    (SchemaRun /\ LeafFields) =>
        \A o \in Orders(checker, v) :
            LET r == Coerce(checker, v, path, o)
            IN  /\ r.ok = result.ok
                /\ r.val = result.val
                /\ ErrStep(r.err) = ErrStep(result.err)
                /\ r.err # result.err => DifferentEntries(r.err, result.err)

\* A run that fails in the dependency step in which another order reports
\* another violated dependency.
C9_Witness ==
    /\ SchemaRun
    /\ LeafFields
    /\ ErrStep(result.err) = "dependencies"
    /\ \E o \in Orders(checker, v) :
           LET r == Coerce(checker, v, path, o)
           IN  ~r.ok /\ r.err # result.err /\ ErrStep(r.err) = "dependencies"

\* The field has a checker, is absent from the input and has both a
\* dependency and a default other than Omit.
DependentWithDefault(name) ==
    /\ name \in DOMAIN checker.Checkers
    /\ Absent(name)
    /\ name \in DOMAIN checker.Dependencies
    /\ HasValueDefault(name)

\* The non-Omit defaults that name a field without a checker.
UnknownDefaults ==
    {n \in DOMAIN checker.Defaults :
        checker.Defaults[n] # Omit /\ n \notin DOMAIN checker.Checkers}

\* C10 as stated: such a field is skipped by the per-field step and filled
\* in by the backfill pass, which applies the field's checker to the whole
\* input map and stores that result; the backfill pass fails with the
\* unknown-field error only for a field without a checker.
C10_BackfillFromInput ==
    SchemaRun =>
        /\ \A name \in DOMAIN checker.Checkers :
               DependentWithDefault(name) => CoercedFrom(name, v)
        /\ (LeafFields /\ result.err.kind = ConfigError) =>
               result.err.name \notin DOMAIN checker.Checkers

\* C10 as amended: such a field is not skipped: the per-field step applies
\* its checker to the default value and stores that result; the backfill
\* pass invokes no checker (a leaf checker of a field is invoked at most
\* once), and it fails, with the unknown-field error, exactly when the
\* earlier steps pass and a non-Omit default names a field without a
\* checker.
C10_DefaultBeforeDependency ==
    SchemaRun =>
        /\ \A name \in DOMAIN checker.Checkers :
               /\ DependentWithDefault(name) =>
                      CoercedFrom(name, checker.Defaults[name])
               /\ checker.Checkers[name].kind \in {"any", "const", "empty"} =>
                      Len(CallsAt(fieldPath(path, name))) <= 1
        /\ LeafFields =>
               /\ result.err.kind = ConfigError => result.err.name \in UnknownDefaults
               /\ (/\ UnknownDefaults # {}
                   /\ ErrStep(result.err) \notin {"shape", "strict", "field"})
                      => result.err.kind = ConfigError

\* A successful run in which a dependent field, absent from the input, is
\* in the output with its default, which is not the input map.
C10_Witness ==
    /\ SchemaRun
    /\ result.ok
    /\ \E name \in DOMAIN checker.Checkers :
           /\ DependentWithDefault(name)
           /\ checker.Defaults[name] # v
           /\ InvokedOn(name, checker.Defaults[name])
           /\ Output(name) = checker.Defaults[name]

====
